---- MODULE Spec2Model ----
(***************************************************************************)
(* Expression trees and formal differentiation (making_sympy1.py and       *)
(* making_sympy2.py).  Python objects live in a heap: a sequence of node   *)
(* records addressed by their index.  A constructor call appends a node;   *)
(* nothing in the code removes or renumbers one.                            *)
(***************************************************************************)
EXTENDS Integers, Sequences, FiniteSets, TLC

VARIABLES build, heap, pre, held, call, ncalls, pc

vars == <<build, heap, pre, held, call, ncalls, pc>>

\* ------------------------------------------------------------------ bounds
\* Largest number of nodes of an input tree.
MaxSize == 3
\* Largest number of library calls in one behaviour.
MaxCalls == 1
\* Numeric literals used as Constant payloads and as combinator operands.
Lits == {-1, 0, 2}

\* ------------------------------------------------------------------- nodes
Nil == 0

\* making_sympy1.py has no Sin, no Cos, no __sub__ and no __rsub__.
Builds == {1, 2}

Tags(b) ==
  {"Variable", "Constant", "Addition", "Subtraction", "Multiplication",
   "Division", "Power"} \cup (IF b = 2 THEN {"Sin", "Cos"} ELSE {})

BinaryTags == {"Addition", "Subtraction", "Multiplication", "Division", "Power"}

UnaryTags == {"Sin", "Cos"}

\* One record shape for every class.  left/right hold Power's base/exponent
\* and left holds Sin's and Cos's expr.  A Constant whose value is a number
\* has box = Nil; a Constant whose value is another object has that
\* object's address in box.
Node(tag, name, value, box, left, right) ==
  [tag |-> tag, name |-> name, value |-> value, box |-> box,
   left |-> left, right |-> right]

Variable(name) == Node("Variable", name, 0, Nil, Nil, Nil)

\* An operand of a call: a numeric literal (isinstance(other, (int, float)))
\* or a reference to an object.
Num(k) == [num |-> TRUE, v |-> k]

Ref(id) == [num |-> FALSE, v |-> id]

Constant(value) ==
  IF value.num THEN Node("Constant", "", value.v, Nil, Nil, Nil)
  ELSE Node("Constant", "", 0, value.v, Nil, Nil)

Binary(tag, left, right) == Node(tag, "", 0, Nil, left, right)

Unary(tag, expr) == Node(tag, "", 0, Nil, expr, Nil)

\* The outcome of a call: the heap after it, the object returned (Nil when
\* an exception was raised) and the exception's class.
Outcome(h, r, st) == [h |-> h, r |-> r, st |-> st]

\* A constructor call: a new object at the next free address.
New(h, node) == Outcome(Append(h, node), Len(h) + 1, "ok")

Raise(h, exc) == Outcome(h, Nil, exc)

\* ------------------------------------------------------------- combinators
\* Expression.__add__
add(h, self, other) ==
  IF other.num
  THEN LET c == New(h, Constant(other))
       IN New(c.h, Binary("Addition", self, c.r))
  ELSE New(h, Binary("Addition", self, other.v))

\* A slip in __radd__: the operands kept in the order of the source text.
radd_keeps_order(h, self, other) ==
  LET c == New(h, Constant(other))
  IN New(c.h, Binary("Addition", c.r, self))

\* Expression.__radd__
radd(h, self, other) == add(h, self, other)

\* Expression.__sub__ (making_sympy2.py only)
sub(h, self, other) ==
  IF other.num
  THEN LET c == New(h, Constant(other))
       IN New(c.h, Binary("Subtraction", self, c.r))
  ELSE New(h, Binary("Subtraction", self, other.v))

\* Expression.__rsub__ (making_sympy2.py only): the promoted operand is
\* passed to Constant once more.
rsub(h, self, other) ==
  LET c == IF other.num THEN New(h, Constant(other)) ELSE Outcome(h, other.v, "ok")
      cc == New(c.h, Constant(Ref(c.r)))
  IN New(cc.h, Binary("Subtraction", cc.r, self))

\* Expression.__mul__
mul(h, self, other) ==
  IF other.num
  THEN LET c == New(h, Constant(other))
       IN New(c.h, Binary("Multiplication", self, c.r))
  ELSE New(h, Binary("Multiplication", self, other.v))

\* Expression.__rmul__
rmul(h, self, other) == mul(h, self, other)

\* Expression.__truediv__
truediv(h, self, other) ==
  IF other.num
  THEN LET c == New(h, Constant(other))
       IN New(c.h, Binary("Division", self, c.r))
  ELSE New(h, Binary("Division", self, other.v))

\* Expression.__rtruediv__: the promoted operand is passed to Constant once
\* more.
rtruediv(h, self, other) ==
  LET c == IF other.num THEN New(h, Constant(other)) ELSE Outcome(h, other.v, "ok")
      cc == New(c.h, Constant(Ref(c.r)))
  IN New(cc.h, Binary("Division", cc.r, self))

\* Variable.__pow__
pow(h, self, other) ==
  IF other.num
  THEN LET c == New(h, Constant(other))
       IN New(c.h, Binary("Power", self, c.r))
  ELSE New(h, Binary("Power", self, other.v))

\* Python's binary operator protocol for the expression `l op r`, where at
\* least one operand is an Expression: the left operand's method if its
\* class defines one, else the right operand's reflected method, else
\* TypeError.  int and float define no method that accepts an Expression.
OpAdd(h, l, r) ==
  IF ~l.num THEN add(h, l.v, r) ELSE radd(h, r.v, l)

OpSub(h, l, r, b) ==
  IF b = 1 THEN Raise(h, "TypeError")
  ELSE IF ~l.num THEN sub(h, l.v, r) ELSE rsub(h, r.v, l)

OpMul(h, l, r) ==
  IF ~l.num THEN mul(h, l.v, r) ELSE rmul(h, r.v, l)

OpTrueDiv(h, l, r) ==
  IF ~l.num THEN truediv(h, l.v, r) ELSE rtruediv(h, r.v, l)

\* Only Variable defines __pow__, and no class defines __rpow__.
OpPow(h, l, r) ==
  IF ~l.num /\ h[l.v].tag = "Variable" THEN pow(h, l.v, r)
  ELSE Raise(h, "TypeError")

\* -------------------------------------------------------------- derivative
RECURSIVE derivative(_, _, _)

\* Variable.derivative
Variable_derivative(h, self, b) == New(h, Constant(Num(1)))

\* A slip in Constant.derivative: Constant(0) returns itself as its own
\* derivative instead of a new object.
Constant_derivative_shared(h, self, b) ==
  IF h[self].box = Nil /\ h[self].value = 0
  THEN Outcome(h, self, "ok")
  ELSE New(h, Constant(Num(0)))

\* Constant.derivative
Constant_derivative(h, self, b) == New(h, Constant(Num(0)))

\* Addition.derivative: self.left.derivative() + self.right.derivative()
Addition_derivative(h, self, b) ==
  LET dl == derivative(h, h[self].left, b)
  IN IF dl.st # "ok" THEN dl
     ELSE LET dr == derivative(dl.h, dl.h[self].right, b)
          IN IF dr.st # "ok" THEN dr
             ELSE OpAdd(dr.h, Ref(dl.r), Ref(dr.r))

\* Subtraction.derivative: self.left.derivative() - self.right.derivative()
Subtraction_derivative(h, self, b) ==
  LET dl == derivative(h, h[self].left, b)
  IN IF dl.st # "ok" THEN dl
     ELSE LET dr == derivative(dl.h, dl.h[self].right, b)
          IN IF dr.st # "ok" THEN dr
             ELSE OpSub(dr.h, Ref(dl.r), Ref(dr.r), b)

\* A slip in the product rule: the derivative of a product taken as the
\* product of the derivatives.
Multiplication_derivative_naive(h, self, b) ==
  LET dl == derivative(h, h[self].left, b)
  IN IF dl.st # "ok" THEN dl
     ELSE LET dr == derivative(dl.h, dl.h[self].right, b)
          IN IF dr.st # "ok" THEN dr
             ELSE New(dr.h, Binary("Multiplication", dl.r, dr.r))

\* Multiplication.derivative
Multiplication_derivative(h, self, b) ==
  LET dl == derivative(h, h[self].left, b)
  IN IF dl.st # "ok" THEN dl
     ELSE LET m1 == New(dl.h, Binary("Multiplication", dl.r, dl.h[self].right))
              dr == derivative(m1.h, m1.h[self].right, b)
          IN IF dr.st # "ok" THEN dr
             ELSE LET m2 == New(dr.h, Binary("Multiplication", dr.h[self].left, dr.r))
                  IN New(m2.h, Binary("Addition", m1.r, m2.r))

\* Division.derivative
Division_derivative(h, self, b) ==
  LET dl == derivative(h, h[self].left, b)
  IN IF dl.st # "ok" THEN dl
     ELSE LET m1 == New(dl.h, Binary("Multiplication", dl.r, dl.h[self].right))
              dr == derivative(m1.h, m1.h[self].right, b)
          IN IF dr.st # "ok" THEN dr
             ELSE LET m2 == New(dr.h, Binary("Multiplication", dr.h[self].left, dr.r))
                      numerator == New(m2.h, Binary("Subtraction", m1.r, m2.r))
                      denominator ==
                        New(numerator.h,
                            Binary("Multiplication", numerator.h[self].right,
                                   numerator.h[self].right))
                  IN New(denominator.h, Binary("Division", numerator.r, denominator.r))

\* self.exponent.value - 1 in Power.derivative: a number, or, when the value
\* is an object, whatever that object's `-` gives.
ExponentMinusOne(h, exponent, b) ==
  IF h[exponent].box = Nil
  THEN Outcome(h, Num(h[exponent].value - 1), "ok")
  ELSE LET s == OpSub(h, Ref(h[exponent].box), Num(1), b)
       IN Outcome(s.h, Ref(s.r), s.st)

\* A slip in the power rule: the exponent is not decremented.
PowerRule_no_decrement(h, self, b) ==
  LET new_exponent == New(h, Constant(Num(h[h[self].right].value)))
      p == New(new_exponent.h,
               Binary("Power", new_exponent.h[self].left, new_exponent.r))
      m == New(p.h, Binary("Multiplication", p.h[self].right, p.r))
      db == derivative(m.h, m.h[self].left, b)
  IN IF db.st # "ok" THEN db
     ELSE New(db.h, Binary("Multiplication", m.r, db.r))

\* A slip in the power rule: the exponent object is decremented in place
\* and reused, its old value copied into the coefficient.
PowerRule_in_place(h, self, b) ==
  LET n == New(h, Constant(Num(h[h[self].right].value)))
      h1 == [n.h EXCEPT ![h[self].right].value = @ - 1]
      p == New(h1, Binary("Power", h1[self].left, h1[self].right))
      m == New(p.h, Binary("Multiplication", n.r, p.r))
      db == derivative(m.h, m.h[self].left, b)
  IN IF db.st # "ok" THEN db
     ELSE New(db.h, Binary("Multiplication", m.r, db.r))

\* Power.derivative, the branch taken when the exponent is a Constant.
PowerRule(h, self, b) ==
  LET v == ExponentMinusOne(h, h[self].right, b)
  IN IF v.st # "ok" THEN Raise(v.h, v.st)
     ELSE LET new_exponent == New(v.h, Constant(v.r))
              p == New(new_exponent.h,
                       Binary("Power", new_exponent.h[self].left, new_exponent.r))
              m == New(p.h, Binary("Multiplication", p.h[self].right, p.r))
              db == derivative(m.h, m.h[self].left, b)
          IN IF db.st # "ok" THEN db
             ELSE New(db.h, Binary("Multiplication", m.r, db.r))

\* A slip in Power.derivative: an exponent that is not a Constant gives
\* Constant(0) instead of an error.
Power_derivative_silent(h, self, b) ==
  IF h[h[self].right].tag = "Constant"
  THEN PowerRule(h, self, b)
  ELSE New(h, Constant(Num(0)))

\* Power.derivative
Power_derivative(h, self, b) ==
  IF h[h[self].right].tag = "Constant"
  THEN PowerRule(h, self, b)
  ELSE Raise(h, "NotImplementedError")

\* Sin.derivative (making_sympy2.py only)
Sin_derivative(h, self, b) ==
  LET c == New(h, Unary("Cos", h[self].left))
      d == derivative(c.h, c.h[self].left, b)
  IN IF d.st # "ok" THEN d
     ELSE New(d.h, Binary("Multiplication", c.r, d.r))

\* Cos.derivative (making_sympy2.py only)
Cos_derivative(h, self, b) ==
  LET k == New(h, Constant(Num(-1)))
      s == New(k.h, Unary("Sin", k.h[self].left))
      m == New(s.h, Binary("Multiplication", k.r, s.r))
      d == derivative(m.h, m.h[self].left, b)
  IN IF d.st # "ok" THEN d
     ELSE New(d.h, Binary("Multiplication", m.r, d.r))

\* expr.derivative(): dispatch on the object's class.
derivative(h, self, b) ==
  CASE h[self].tag = "Variable" -> Variable_derivative(h, self, b)
    [] h[self].tag = "Constant" -> Constant_derivative(h, self, b)
    [] h[self].tag = "Addition" -> Addition_derivative(h, self, b)
    [] h[self].tag = "Subtraction" -> Subtraction_derivative(h, self, b)
    [] h[self].tag = "Multiplication" -> Multiplication_derivative(h, self, b)
    [] h[self].tag = "Division" -> Division_derivative(h, self, b)
    [] h[self].tag = "Power" -> Power_derivative(h, self, b)
    [] h[self].tag = "Sin" -> Sin_derivative(h, self, b)
    [] h[self].tag = "Cos" -> Cos_derivative(h, self, b)

\* ------------------------------------------------------- trees and strings
\* The structure of the object at address id, as a value: two objects are
\* structurally equal when they unfold to the same value.
RECURSIVE Tree(_, _)
Tree(h, id) ==
  LET n == h[id]
  IN [tag |-> n.tag, name |-> n.name, value |-> n.value,
      box |-> IF n.box = Nil THEN <<>> ELSE <<Tree(h, n.box)>>,
      kids |-> (IF n.left = Nil THEN <<>> ELSE <<Tree(h, n.left)>>)
               \o (IF n.right = Nil THEN <<>> ELSE <<Tree(h, n.right)>>)]

Leaf(tag, name, value) ==
  [tag |-> tag, name |-> name, value |-> value, box |-> <<>>, kids |-> <<>>]

Inner(tag, kids) ==
  [tag |-> tag, name |-> "", value |-> 0, box |-> <<>>, kids |-> kids]

\* The trees of exactly n nodes that build b can construct, with the one
\* variable x and the literals of Lits.
RECURSIVE TreesOfSize(_, _)
TreesOfSize(n, b) ==
  IF n = 1
  THEN {Leaf("Variable", "x", 0)} \cup {Leaf("Constant", "", k) : k \in Lits}
  ELSE {Inner(tag, <<t>>) : tag \in UnaryTags \cap Tags(b), t \in TreesOfSize(n - 1, b)}
       \cup UNION {{Inner(tag, <<l, r>>) :
                      tag \in BinaryTags,
                      l \in TreesOfSize(i, b),
                      r \in TreesOfSize(n - 1 - i, b)} : i \in 1..(n - 2)}

InputTrees(b) == UNION {TreesOfSize(n, b) : n \in 1..MaxSize}

\* The constructor calls that build tree t bottom-up, every node a new
\* object.  With x # Nil every Variable leaf is the one object at x instead
\* (the driver's `x = Variable("x")`).
RECURSIVE Load(_, _, _)
Load(h, t, x) ==
  CASE t.tag = "Variable" ->
         IF x = Nil THEN New(h, Variable(t.name)) ELSE Outcome(h, x, "ok")
    [] t.tag = "Constant" -> New(h, Constant(Num(t.value)))
    [] t.tag \in UnaryTags ->
         LET e == Load(h, t.kids[1], x) IN New(e.h, Unary(t.tag, e.r))
    [] t.tag \in BinaryTags ->
         LET l == Load(h, t.kids[1], x)
             r == Load(l.h, t.kids[2], x)
         IN New(r.h, Binary(t.tag, l.r, r.r))

OpSymbol(tag) ==
  CASE tag = "Addition" -> " + "
    [] tag = "Subtraction" -> " - "
    [] tag = "Multiplication" -> " * "
    [] tag = "Division" -> " / "
    [] tag = "Power" -> " ** "

\* __repr__ / __str__
RECURSIVE Render(_, _)
Render(h, id) ==
  LET n == h[id]
  IN CASE n.tag = "Variable" -> n.name
       [] n.tag = "Constant" ->
            IF n.box = Nil THEN ToString(n.value) ELSE Render(h, n.box)
       [] n.tag = "Sin" -> "sin(" \o Render(h, n.left) \o ")"
       [] n.tag = "Cos" -> "cos(" \o Render(h, n.left) \o ")"
       [] OTHER -> "(" \o Render(h, n.left) \o OpSymbol(n.tag)
                   \o Render(h, n.right) \o ")"

\* ------------------------------------------------------------------- state
\* build   which source file runs (1: making_sympy1.py, 2: making_sympy2.py)
\* heap    the objects
\* pre     the heap as it was when the last call began
\* held    the objects the caller holds a reference to
\* call    the last call: the expression evaluated and its outcome
\* ncalls  the number of calls made
\* pc      the driver's position ("lib" when the classes are used directly)
NoOperand == Num(0)

NoCall == [op |-> "none", left |-> NoOperand, right |-> NoOperand,
           res |-> Nil, st |-> "ok"]

Init ==
  /\ build \in Builds
  /\ \E t \in InputTrees(build) :
       LET e == Load(<<>>, t, Nil)
       IN /\ heap = e.h
          /\ held = {e.r}
  /\ pre = heap
  /\ call = NoCall
  /\ ncalls = 0
  /\ pc = "lib"

\* The caller evaluates an expression: the heap takes the outcome's heap and
\* the caller keeps the object returned.
Evaluate(op, left, right, out) ==
  /\ heap' = out.h
  /\ pre' = heap
  /\ held' = IF out.st = "ok" THEN held \cup {out.r} ELSE held
  /\ call' = [op |-> op, left |-> left, right |-> right, res |-> out.r, st |-> out.st]
  /\ ncalls' = ncalls + 1
  /\ UNCHANGED <<build, pc>>

Operands == {Num(k) : k \in Lits} \cup {Ref(f) : f \in held}

\* e.derivative()
CallDerivative ==
  /\ pc = "lib" /\ ncalls < MaxCalls
  /\ \E e \in held :
       Evaluate("derivative", Ref(e), NoOperand, derivative(heap, e, build))

\* e + other
CallAdd ==
  /\ pc = "lib" /\ ncalls < MaxCalls
  /\ \E e \in held, other \in Operands :
       Evaluate("add", Ref(e), other, OpAdd(heap, Ref(e), other))

\* k + e
CallRAdd ==
  /\ pc = "lib" /\ ncalls < MaxCalls
  /\ \E e \in held, k \in Lits :
       Evaluate("add", Num(k), Ref(e), OpAdd(heap, Num(k), Ref(e)))

\* e - other
CallSub ==
  /\ pc = "lib" /\ ncalls < MaxCalls
  /\ \E e \in held, other \in Operands :
       Evaluate("sub", Ref(e), other, OpSub(heap, Ref(e), other, build))

\* k - e
CallRSub ==
  /\ pc = "lib" /\ ncalls < MaxCalls
  /\ \E e \in held, k \in Lits :
       Evaluate("sub", Num(k), Ref(e), OpSub(heap, Num(k), Ref(e), build))

\* e * other
CallMul ==
  /\ pc = "lib" /\ ncalls < MaxCalls
  /\ \E e \in held, other \in Operands :
       Evaluate("mul", Ref(e), other, OpMul(heap, Ref(e), other))

\* k * e
CallRMul ==
  /\ pc = "lib" /\ ncalls < MaxCalls
  /\ \E e \in held, k \in Lits :
       Evaluate("mul", Num(k), Ref(e), OpMul(heap, Num(k), Ref(e)))

\* e / other
CallTrueDiv ==
  /\ pc = "lib" /\ ncalls < MaxCalls
  /\ \E e \in held, other \in Operands :
       Evaluate("truediv", Ref(e), other, OpTrueDiv(heap, Ref(e), other))

\* k / e
CallRTrueDiv ==
  /\ pc = "lib" /\ ncalls < MaxCalls
  /\ \E e \in held, k \in Lits :
       Evaluate("truediv", Num(k), Ref(e), OpTrueDiv(heap, Num(k), Ref(e)))

\* e ** other
CallPow ==
  /\ pc = "lib" /\ ncalls < MaxCalls
  /\ \E e \in held, other \in Operands :
       Evaluate("pow", Ref(e), other, OpPow(heap, Ref(e), other))

Next ==
  \/ CallDerivative
  \/ CallAdd
  \/ CallRAdd
  \/ CallSub
  \/ CallRSub
  \/ CallMul
  \/ CallRMul
  \/ CallTrueDiv
  \/ CallRTrueDiv
  \/ CallPow

Spec == Init /\ [][Next]_vars

\* ------------------------------------------------------------------ driver
\* input(...).lower() on the answers the model feeds the prompt.
Lower(answer) ==
  CASE answer = "Y" -> "y"
    [] answer = "Q" -> "q"
    [] OTHER -> answer

Answers == {"y", "Y", "q", ""}

\* input_expression(): x = Variable("x"), then eval of the rewritten text
\* either raises (reported, None returned: r = Nil) or returns the object
\* the text denotes.  parsed is <<>> or <<t>>.
input_expression(parsed) ==
  LET x == New(<<>>, Variable("x"))
  IN IF parsed = <<>> THEN Outcome(x.h, Nil, "ok")
     ELSE Load(x.h, parsed[1], x.r)

DriverInit ==
  /\ build \in Builds
  /\ heap = <<>>
  /\ pre = <<>>
  /\ held = {}
  /\ call = NoCall
  /\ ncalls = 0
  /\ pc = "output_derivative"

\* The texts fed to the driver, by what eval makes of them: <<>> when eval
\* raises, <<t>> when it returns the object of structure t.
Inputs(b) == {<<>>} \cup {<<t>> : t \in InputTrees(b)}

\* output_derivative() once expr.derivative() has ended with outcome d: an
\* exception is caught nowhere and ends the process.
AfterDerivative(expr, d) ==
  [heap |-> d.h, pre |-> expr.h,
   call |-> [op |-> "derivative", left |-> Ref(expr.r), right |-> NoOperand,
             res |-> d.r, st |-> d.st],
   pc |-> IF d.st = "ok" THEN "continue" ELSE "crashed"]

\* output_derivative() once input_expression() has returned expr: `if expr:`
\* skips None.
AfterInput(expr, b) ==
  IF expr.r = Nil
  THEN [heap |-> expr.h, pre |-> expr.h, call |-> NoCall, pc |-> "continue"]
  ELSE AfterDerivative(expr, derivative(expr.h, expr.r, b))

\* output_derivative() on one input: the heap and the call it leaves, and
\* where the process is then.
output_derivative(parsed, b) == AfterInput(input_expression(parsed), b)

\* The main loop calls output_derivative().
OutputDerivative ==
  /\ pc = "output_derivative"
  /\ \E parsed \in Inputs(build) :
       \E after \in {output_derivative(parsed, build)} :
          /\ heap' = after.heap
          /\ pre' = after.pre
          /\ call' = after.call
          /\ pc' = after.pc
  /\ UNCHANGED <<build, held, ncalls>>

\* if input("\nContinue? (y/q): ").lower() != "y": break
Continue ==
  /\ pc = "continue"
  /\ \E answer \in Answers :
       pc' = IF Lower(answer) # "y" THEN "exited" ELSE "output_derivative"
  /\ UNCHANGED <<build, heap, pre, held, call, ncalls>>

DriverNext ==
  \/ OutputDerivative
  \/ Continue

DriverSpec == DriverInit /\ [][DriverNext]_vars

\* ---------------------------------------------------------- claim helpers
IsDerivativeCall == call.op = "derivative"

\* The object the last call was applied to.
Self == call.left.v

\* derivative(e) is defined: the call returns a tree.
Defined(h, id) == derivative(h, id, build).st = "ok"

\* The structure of derivative(e).
DTree(h, id) ==
  LET d == derivative(h, id, build) IN Tree(d.h, d.r)

ConstantT(k) == Leaf("Constant", "", k)

\* The structure an operand denotes: Constant(k) for a literal k.
OperandT(h, o) == IF o.num THEN ConstantT(o.v) ELSE Tree(h, o.v)

RECURSIVE Reach(_, _)
Reach(h, id) ==
  {id} \cup (IF h[id].left = Nil THEN {} ELSE Reach(h, h[id].left))
       \cup (IF h[id].right = Nil THEN {} ELSE Reach(h, h[id].right))
       \cup (IF h[id].box = Nil THEN {} ELSE Reach(h, h[id].box))

\* The number of parent slots that hold object id.
ParentSlots(h, id) ==
  Cardinality({p \in 1..Len(h) : h[p].left = id})
  + Cardinality({p \in 1..Len(h) : h[p].right = id})
  + Cardinality({p \in 1..Len(h) : h[p].box = id})

SingleOwned(h) == \A id \in 1..Len(h) : ParentSlots(h, id) <= 1

\* e contains a Power node whose exponent is not a Constant.
RECURSIVE HasSymbolicPower(_, _)
HasSymbolicPower(h, id) ==
  \/ h[id].tag = "Power" /\ h[h[id].right].tag # "Constant"
  \/ h[id].left # Nil /\ HasSymbolicPower(h, h[id].left)
  \/ h[id].right # Nil /\ HasSymbolicPower(h, h[id].right)

\* ------------------------------------------------------------------ claims
\* C1: product rule.  Whenever derivative is applied to Multiplication(a, b)
\* and derivative(a), derivative(b) are defined, it returns a tree
\* structurally equal to Addition(Multiplication(derivative(a), b),
\* Multiplication(a, derivative(b))), no operand simplified.
C1_ProductRule ==
  (/\ IsDerivativeCall
   /\ pre[Self].tag = "Multiplication"
   /\ Defined(pre, pre[Self].left)
   /\ Defined(pre, pre[Self].right))
  => /\ call.st = "ok"
     /\ Tree(heap, call.res) =
          Inner("Addition",
                <<Inner("Multiplication",
                        <<DTree(pre, pre[Self].left), Tree(pre, pre[Self].right)>>),
                  Inner("Multiplication",
                        <<Tree(pre, pre[Self].left), DTree(pre, pre[Self].right)>>)>>)

\* C1's case: derivative has returned for a Multiplication whose right
\* factor is Constant(0).
C1_Witness ==
  /\ IsDerivativeCall /\ call.st = "ok"
  /\ pre[Self].tag = "Multiplication"
  /\ Tree(pre, pre[Self].right) = ConstantT(0)

\* C2: linearity for subtraction, in both builds.  Whenever derivative is
\* applied to Subtraction(a, b) and derivative(a), derivative(b) are defined,
\* it does not fail and returns a tree structurally equal to
\* Subtraction(derivative(a), derivative(b)).
C2_SubtractionLinearity ==
  (/\ IsDerivativeCall
   /\ pre[Self].tag = "Subtraction"
   /\ Defined(pre, pre[Self].left)
   /\ Defined(pre, pre[Self].right))
  => /\ call.st = "ok"
     /\ Tree(heap, call.res) =
          Inner("Subtraction",
                <<DTree(pre, pre[Self].left), DTree(pre, pre[Self].right)>>)

\* C3: generalized power rule.  Whenever derivative is applied to
\* Power(b, Constant(n)), n a number, and derivative(b) is defined, it returns
\* a tree structurally equal to Multiplication(Multiplication(Constant(n),
\* Power(b, Constant(n - 1))), derivative(b)); the factor derivative(b) is
\* kept when b is the Variable.
C3_PowerRule ==
  (/\ IsDerivativeCall
   /\ pre[Self].tag = "Power"
   /\ pre[pre[Self].right].tag = "Constant"
   /\ pre[pre[Self].right].box = Nil
   /\ Defined(pre, pre[Self].left))
  => /\ call.st = "ok"
     /\ Tree(heap, call.res) =
          Inner("Multiplication",
                <<Inner("Multiplication",
                        <<ConstantT(pre[pre[Self].right].value),
                          Inner("Power",
                                <<Tree(pre, pre[Self].left),
                                  ConstantT(pre[pre[Self].right].value - 1)>>)>>),
                  DTree(pre, pre[Self].left)>>)

\* C3's case: derivative has returned for Power(x, Constant(n)) with n <= 0.
C3_Witness ==
  /\ IsDerivativeCall /\ call.st = "ok"
  /\ pre[Self].tag = "Power"
  /\ pre[pre[Self].left].tag = "Variable"
  /\ pre[pre[Self].right].tag = "Constant"
  /\ pre[pre[Self].right].value <= 0

C5_NoMutation ==
  IsDerivativeCall
  => /\ Len(heap) >= Len(pre)
     /\ \A id \in 1..Len(pre) : heap[id] = pre[id]
     /\ Render(heap, Self) = Render(pre, Self)

\* C5's case: derivative has returned for a Power node.
C5_Witness ==
  /\ IsDerivativeCall /\ call.st = "ok"
  /\ pre[Self].tag = "Power"
  /\ Len(heap) > Len(pre)

\* C6: `k / e` builds Division(Constant(k), e) and, in making_sympy2.py,
\* `k - e` builds Subtraction(Constant(k), e), the Constant's payload being
\* the number k.
C6_ReflectedPayloadIsNumber ==
  /\ (call.op = "truediv" /\ call.left.num)
     => /\ call.st = "ok"
        /\ Tree(heap, call.res) =
             Inner("Division", <<ConstantT(call.left.v), Tree(pre, call.right.v)>>)
  /\ (call.op = "sub" /\ call.left.num /\ build = 2)
     => /\ call.st = "ok"
        /\ Tree(heap, call.res) =
             Inner("Subtraction", <<ConstantT(call.left.v), Tree(pre, call.right.v)>>)

\* C7: `e ** other` builds Power(e, Constant(k)) for a literal k and
\* Power(e, f) for an expression f, for e of any class, without failing.
C7_PowBuildsPower ==
  call.op = "pow"
  => /\ call.st = "ok"
     /\ Tree(heap, call.res) =
          Inner("Power", <<Tree(pre, call.left.v), OperandT(pre, call.right)>>)

C9_DriverSurvives ==
  (IsDerivativeCall /\ call.st = "NotImplementedError") => pc = "continue"

\* C10: reflected operand order.  `k + e` and `k * e` build
\* Addition(e, Constant(k)) and Multiplication(e, Constant(k)), the trees of
\* `e + k` and `e * k`; `k / e` and (making_sympy2.py) `k - e` keep e on the
\* right and a Constant that renders as k on the left.
C10_ReflectedOperandOrder ==
  /\ (call.op = "add" /\ call.left.num)
     => /\ call.st = "ok"
        /\ Tree(heap, call.res) =
             Inner("Addition", <<Tree(pre, call.right.v), ConstantT(call.left.v)>>)
        /\ Tree(heap, call.res) =
             LET o == OpAdd(pre, call.right, call.left) IN Tree(o.h, o.r)
  /\ (call.op = "mul" /\ call.left.num)
     => /\ call.st = "ok"
        /\ Tree(heap, call.res) =
             Inner("Multiplication", <<Tree(pre, call.right.v), ConstantT(call.left.v)>>)
        /\ Tree(heap, call.res) =
             LET o == OpMul(pre, call.right, call.left) IN Tree(o.h, o.r)
  /\ (call.op = "truediv" /\ call.left.num)
     => /\ call.st = "ok"
        /\ heap[call.res].tag = "Division"
        /\ heap[call.res].right = call.right.v
        /\ heap[heap[call.res].left].tag = "Constant"
        /\ Render(heap, heap[call.res].left) = ToString(call.left.v)
  /\ (call.op = "sub" /\ call.left.num /\ build = 2)
     => /\ call.st = "ok"
        /\ heap[call.res].tag = "Subtraction"
        /\ heap[call.res].right = call.right.v
        /\ heap[heap[call.res].left].tag = "Constant"
        /\ Render(heap, heap[call.res].left) = ToString(call.left.v)

\* C10's case: `k + e` has been evaluated for an e that is not a leaf.
C10_Witness ==
  /\ call.op = "add" /\ call.left.num /\ call.st = "ok"
  /\ pre[call.right.v].tag \in BinaryTags

====
